---------------------------- MODULE Spec2Model ----------------------------
(***************************************************************************)
(* Model of pyvest's DataLoader (src/pyvest/src/pyvest/dataloader.py, with *)
(* fetch_multiple_tickers and clear_cache taken from                       *)
(* src/pyvest/src/dataloader.py, the only place where they are defined).   *)
(*                                                                         *)
(* Dates are day numbers (pd.Timestamp at calendar-day granularity, day 1  *)
(* a Monday); pd.Timedelta(days=1) is 1.  A string is a sequence of atoms: *)
(* "_" and "." are the two characters the code looks for, every other atom *)
(* is a run of characters containing neither.                              *)
(***************************************************************************)
EXTENDS Integers, Sequences, FiniteSets, TLC

VARIABLES store,    \* the cache directory: file name -> file content
          last,     \* the last completed call of a DataLoader method
          ovArgs,   \* _check_date_overlap alone: its four arguments
          ovRet,    \* _check_date_overlap alone: what it returned
          threads   \* the calls of fetch_single_ticker two threads are in

vars == <<store, last, ovArgs, ovRet, threads>>

-----------------------------------------------------------------------------
(* Bounds *)

MaxDay == 3       \* requests and cache entries range over days 1..MaxDay
MaxOvDay == 4     \* days of the exhaustive _check_date_overlap runs
MaxFiles == 2     \* files the cache directory holds at most

Days == 1..MaxDay
OvDays == 1..MaxOvDay

-----------------------------------------------------------------------------
(* Python values *)

None == <<>>
Some(x) == <<x>>

Min(a, b) == IF a <= b THEN a ELSE b
Max(a, b) == IF a >= b THEN a ELSE b

-----------------------------------------------------------------------------
(* _check_date_overlap *)

Ret(status, gap) == [status |-> status, gap |-> gap]

CheckDateOverlapContainsFirst(cached_start, cached_end, req_start, req_end) ==
    IF cached_start <= req_start /\ cached_end >= req_end
        THEN Ret("contains", None)
    ELSE IF cached_start = req_start /\ cached_end = req_end
        THEN Ret("exact", None)
    ELSE IF cached_end < req_start \/ cached_start > req_end
        THEN Ret("miss", None)
    ELSE IF cached_start <= req_start /\ cached_end < req_end
        THEN Ret("overlap_after", Some(<<cached_end + 1, req_end>>))
    ELSE IF cached_start > req_start /\ cached_end >= req_end
        THEN Ret("overlap_before", Some(<<req_start, cached_start - 1>>))
    ELSE Ret("miss", None)

CheckDateOverlapGapOffByOne(cached_start, cached_end, req_start, req_end) ==
    IF cached_end < req_start \/ cached_start > req_end
        THEN Ret("miss", None)
    ELSE IF cached_start = req_start /\ cached_end = req_end
        THEN Ret("exact", None)
    ELSE IF cached_start <= req_start /\ cached_end >= req_end
        THEN Ret("contains", None)
    ELSE IF cached_start <= req_start /\ cached_end < req_end
        THEN Ret("overlap_after", Some(<<cached_end, req_end>>))
    ELSE IF cached_start > req_start /\ cached_end >= req_end
        THEN Ret("overlap_before", Some(<<req_start, cached_start>>))
    ELSE Ret("miss", None)

CheckDateOverlapGapWholeRequest(cached_start, cached_end, req_start, req_end) ==
    IF cached_end < req_start \/ cached_start > req_end
        THEN Ret("miss", None)
    ELSE IF cached_start = req_start /\ cached_end = req_end
        THEN Ret("exact", None)
    ELSE IF cached_start <= req_start /\ cached_end >= req_end
        THEN Ret("contains", None)
    ELSE IF cached_start <= req_start /\ cached_end < req_end
        THEN Ret("overlap_after", Some(<<req_start, req_end>>))
    ELSE IF cached_start > req_start /\ cached_end >= req_end
        THEN Ret("overlap_before", Some(<<req_start, req_end>>))
    ELSE Ret("miss", None)

CheckDateOverlap(cached_start, cached_end, req_start, req_end) ==
    IF cached_end < req_start \/ cached_start > req_end
        THEN Ret("miss", None)
    ELSE IF cached_start = req_start /\ cached_end = req_end
        THEN Ret("exact", None)
    ELSE IF cached_start <= req_start /\ cached_end >= req_end
        THEN Ret("contains", None)
    ELSE IF cached_start <= req_start /\ cached_end < req_end
        THEN Ret("overlap_after", Some(<<cached_end + 1, req_end>>))
    ELSE IF cached_start > req_start /\ cached_end >= req_end
        THEN Ret("overlap_before", Some(<<req_start, cached_start - 1>>))
    ELSE Ret("miss", None)

-----------------------------------------------------------------------------
(* _check_date_overlap on its own: every four days of OvDays *)

NoCall == [op |-> "none"]

Idle == [pc |-> "idle"]
NoThreads == [t \in 1..2 |-> Idle]

InitOverlap ==
    /\ ovArgs \in OvDays \X OvDays \X OvDays \X OvDays
    /\ ovRet = None
    /\ store = << >>
    /\ last = NoCall
    /\ threads = NoThreads

CallCheckDateOverlap ==
    /\ ovRet = None
    /\ ovRet' = Some(CheckDateOverlap(ovArgs[1], ovArgs[2], ovArgs[3], ovArgs[4]))
    /\ UNCHANGED <<ovArgs, store, last, threads>>

NextOverlap == CallCheckDateOverlap

SpecOverlap == InitOverlap /\ [][NextOverlap]_vars

cachedStart == ovArgs[1]
cachedEnd == ovArgs[2]
reqStart == ovArgs[3]
reqEnd == ovArgs[4]
OvValid == cachedStart <= cachedEnd /\ reqStart <= reqEnd
OvReturned == ovRet # None
OvStatus == ovRet[1].status
OvGap == ovRet[1].gap

Statuses == {"miss", "exact", "contains", "overlap_after", "overlap_before"}

(* C1: for valid cached and requested intervals _check_date_overlap returns  *)
(* exactly one of the five statuses, the one the first-match-wins order      *)
(* selects: disjoint -> miss; equal bounds -> exact; cached covers request   *)
(* (and is not equal) -> contains; cached starts no later and ends earlier   *)
(* (and intersects) -> overlap_after; cached starts later and ends no        *)
(* earlier (and intersects) -> overlap_before; request strictly wider on     *)
(* both sides -> miss.                                                       *)
C1_DecisionOrder ==
    (OvReturned /\ OvValid) =>
        /\ OvStatus \in Statuses
        /\ OvStatus = "miss" <=>
              \/ cachedEnd < reqStart
              \/ cachedStart > reqEnd
              \/ (reqStart < cachedStart /\ cachedEnd < reqEnd)
        /\ OvStatus = "exact" <=> (cachedStart = reqStart /\ cachedEnd = reqEnd)
        /\ OvStatus = "contains" <=>
              /\ cachedStart <= reqStart /\ reqEnd <= cachedEnd
              /\ ~(cachedStart = reqStart /\ cachedEnd = reqEnd)
        /\ OvStatus = "overlap_after" <=>
              /\ cachedStart <= reqStart /\ reqStart <= cachedEnd
              /\ cachedEnd < reqEnd
        /\ OvStatus = "overlap_before" <=>
              /\ reqStart < cachedStart /\ cachedStart <= reqEnd
              /\ reqEnd <= cachedEnd

C1_Witness ==
    /\ OvReturned /\ OvValid
    /\ reqStart < cachedStart /\ cachedEnd < reqEnd
    /\ OvStatus = "miss"

(* C2: _check_date_overlap returns a gap exactly when the status is          *)
(* overlap_after or overlap_before; the gap is [cachedEnd + 1, reqEnd] for   *)
(* overlap_after and [reqStart, cachedStart - 1] for overlap_before, and it  *)
(* is never empty.                                                           *)
C2_Gap ==
    (OvReturned /\ OvValid) =>
        /\ OvGap # None <=> OvStatus \in {"overlap_after", "overlap_before"}
        /\ OvStatus = "overlap_after" => OvGap = Some(<<cachedEnd + 1, reqEnd>>)
        /\ OvStatus = "overlap_before" => OvGap = Some(<<reqStart, cachedStart - 1>>)
        /\ OvGap # None => OvGap[1][1] <= OvGap[1][2]

C2_Witness ==
    /\ OvReturned /\ OvValid
    /\ OvStatus = "overlap_before"
    /\ OvGap = Some(<<reqStart, cachedStart - 1>>)
    /\ reqStart < cachedStart - 1

\* The days of the cached interval, of the requested one and of the gap
CachedDays == cachedStart..cachedEnd
ReqDays == reqStart..reqEnd
GapDays == OvGap[1][1]..OvGap[1][2]

(* C21: when _check_date_overlap returns overlap_after or overlap_before for *)
(* valid intervals, the gap has no day of the cached interval, touches it    *)
(* with no day between the two, lies inside the requested interval, and the  *)
(* cached interval and the gap together are the days from                    *)
(* min(cachedStart, reqStart) to max(cachedEnd, reqEnd), so they hold every  *)
(* day of the request.                                                       *)
C21_GapAdjacent ==
    (OvReturned /\ OvValid /\ OvStatus \in {"overlap_after", "overlap_before"})
    => /\ GapDays # {}
       /\ GapDays \cap CachedDays = {}
       /\ \/ OvGap[1][1] = cachedEnd + 1
          \/ OvGap[1][2] = cachedStart - 1
       /\ GapDays \subseteq ReqDays
       /\ ReqDays \subseteq CachedDays \cup GapDays
       /\ CachedDays \cup GapDays
             = Min(cachedStart, reqStart)..Max(cachedEnd, reqEnd)

\* An overlap_after whose gap is of several days and begins inside the request
C21_Witness ==
    /\ OvReturned /\ OvValid
    /\ OvStatus = "overlap_after"
    /\ cachedStart < reqStart /\ reqStart <= cachedEnd
    /\ OvGap[1][1] = cachedEnd + 1
    /\ OvGap[1][1] < OvGap[1][2]

-----------------------------------------------------------------------------
(* Strings and paths *)

Tickers == {<<"A">>, <<"M">>}
PriceCols == {<<"Close">>, <<"Px">>}

\* str(date): "YYYY-MM-DD" holds neither "_" nor ".", so it is one atom
DateStr(d) == <<ToString(d)>>

Intervals == {iv \in Days \X Days : iv[1] <= iv[2]}

\* pd.to_datetime / pd.Timestamp of a non-empty string: the day it writes, or
\* ValueError (CanParse false)
CanParse(s) == Len(s) = 1 /\ \E d \in 1..(MaxDay + 1) : ToString(d) = s[1]
ToDatetime(s) == CHOOSE d \in 1..(MaxDay + 1) : ToString(d) = s[1]

\* _get_cache_path as src/pyvest/src/dataloader.py has it, and as the
\* docstring of both copies states the format: with ".pkl"
GetCachePathPkl(ticker, price_col, dates) ==
    ticker \o <<"_">> \o price_col \o <<"_">> \o dates[1] \o <<"_">> \o dates[2]
        \o <<".", "pkl">>

\* _get_cache_path as src/pyvest/src/pyvest/dataloader.py has it
GetCachePath(ticker, price_col, dates) ==
    ticker \o <<"_">> \o price_col \o <<"_">> \o dates[1] \o <<"_">> \o dates[2]

\* pathlib: i = name.rfind('.'); the suffix is name[i:] when 0 < i < len(name) - 1
RFind(name, ch) ==
    LET hits == {i \in 1..Len(name) : name[i] = ch}
    IN  IF hits = {} THEN 0 ELSE CHOOSE i \in hits : \A j \in hits : j <= i

HasSuffix(name) == LET i == RFind(name, ".") IN 1 < i /\ i < Len(name)

Suffix(name) ==
    IF HasSuffix(name) THEN SubSeq(name, RFind(name, "."), Len(name)) ELSE <<>>

Stem(name) ==
    IF HasSuffix(name) THEN SubSeq(name, 1, RFind(name, ".") - 1) ELSE name

\* str.split('_')
RECURSIVE Split(_)
Split(s) ==
    LET hits == {i \in 1..Len(s) : s[i] = "_"}
    IN  IF hits = {} THEN <<s>>
        ELSE LET i == CHOOSE k \in hits : \A j \in hits : k <= j
             IN  <<SubSeq(s, 1, i - 1)>> \o Split(SubSeq(s, i + 1, Len(s)))

-----------------------------------------------------------------------------
(* Cache files *)

\* File contents: a pickled dict, a pickle cut short (pickle.load raises
\* UnpicklingError) or a file of zero bytes (pickle.load raises EOFError).
Pickled(data) == [kind |-> "pickle", data |-> data]
Truncated == [kind |-> "truncated"]
EmptyFile == [kind |-> "empty"]

PickleLoad(content) ==
    CASE content.kind = "pickle" -> [exc |-> "", data |-> content.data]
      [] content.kind = "truncated" -> [exc |-> "UnpicklingError", data |-> <<>>]
      [] content.kind = "empty" -> [exc |-> "EOFError", data |-> <<>>]

\* The directory dir after a write of content to the file name
WriteFile(dir, name, content) ==
    [n \in (DOMAIN dir) \cup {name} |-> IF n = name THEN content ELSE dir[n]]

\* _save_to_cache emptying the directory before it writes
SaveToCacheAlone(dir, cache_path, prices, price_col, dates, ticker, start, end) ==
    LET data == [ticker |-> ticker,
                 start |-> start,
                 end |-> end,
                 n_prices |-> Len(prices),
                 prices |-> prices,
                 dates |-> Some(dates),
                 price_col |-> price_col]
    IN  WriteFile(<< >>, cache_path, Pickled(data))

\* _save_to_cache; fetched_at (the wall clock) is left out of the dict, and a
\* list v given as dates is stored as Some(v), data.get('dates') returning None
\* for a dict without the key
SaveToCache(dir, cache_path, prices, price_col, dates, ticker, start, end) ==
    LET data == [ticker |-> ticker,
                 start |-> start,
                 end |-> end,
                 n_prices |-> Len(prices),
                 prices |-> prices,
                 dates |-> Some(dates),
                 price_col |-> price_col]
    IN  WriteFile(dir, cache_path, Pickled(data))

-----------------------------------------------------------------------------
(* _load_from_cache *)

\* A DataFrame with one column: its rows in index order
Row(d, v) == [date |-> d, value |-> v]
Frame(dates_list, prices_list) ==
    [i \in 1..Len(prices_list) |-> Row(dates_list[i], prices_list[i])]

\* pd.bdate_range(start, periods): the first periods business days from start
IsBusinessDay(d) == (d - 1) % 7 < 5
RECURSIVE BDateRange(_, _)
BDateRange(start, periods) ==
    IF periods = 0 THEN <<>>
    ELSE IF IsBusinessDay(start)
        THEN <<start>> \o BDateRange(start + 1, periods - 1)
    ELSE BDateRange(start + 1, periods)

Returned(df, status, gap) ==
    [exc |-> "", df |-> df, status |-> status, gap |-> gap]
Raised(exc) == [exc |-> exc, df |-> None, status |-> "", gap |-> None]

\* lines 154-179: the entry's file is opened, unpickled and made a DataFrame
ReadEntry(content, price_col, cached_start, ov) ==
    LET ld == PickleLoad(content)
    IN  IF ld.exc # "" THEN Raised(ld.exc)
        ELSE IF "prices" \notin DOMAIN ld.data THEN Raised("KeyError")
        ELSE LET prices_list == ld.data.prices
                 dates_list == IF "dates" \in DOMAIN ld.data
                                   THEN ld.data.dates ELSE None
             IN  IF dates_list # None
                     THEN IF Len(dates_list[1]) # Len(prices_list)
                              THEN Raised("ValueError")
                          ELSE Returned(Some(Frame(dates_list[1], prices_list)),
                                        ov.status, ov.gap)
                 ELSE Returned(Some(Frame(BDateRange(cached_start,
                                                     Len(prices_list)),
                                          prices_list)),
                               ov.status, ov.gap)

Skipped == [exc |-> "", df |-> None, status |-> "continue", gap |-> None]

\* lines 127-179: the body of the try block for one file; "continue" stands
\* for the loop going on to the next file
TryEntry(name, content, ticker, price_col, start_date, end_date) ==
    LET name_parts == Split(Stem(name))
    IN  IF Len(name_parts) < 4 THEN Skipped
        ELSE IF name_parts[1] # ticker \/ name_parts[2] # price_col THEN Skipped
        ELSE IF ~CanParse(name_parts[3]) \/ ~CanParse(name_parts[4])
            THEN Raised("ValueError")
        ELSE LET cached_start == ToDatetime(name_parts[3])
                 cached_end == ToDatetime(name_parts[4])
                 ov == CheckDateOverlap(cached_start, cached_end,
                                        start_date, end_date)
             IN  IF ov.status # "miss"
                     THEN ReadEntry(content, price_col, cached_start, ov)
                 ELSE Skipped

Caught == {"ValueError", "KeyError", "UnpicklingError"}

\* lines 123-184: one iteration of the loop over the directory.  Every entry
\* of the directory is a regular file, so is_file() holds.
ScanEntry(name, content, ticker, price_col, start_date, end_date) ==
    IF Suffix(name) # <<".", "pkl">> THEN Skipped
    ELSE LET r == TryEntry(name, content, ticker, price_col,
                           start_date, end_date)
         IN  IF r.exc \in Caught THEN Skipped ELSE r

\* _load_from_cache with the scan ended by the first file passed over
LoadFromCacheStopAtFirst(dir, order, ticker, price_col, start_date, end_date) ==
    IF order = <<>> THEN Returned(None, "miss", None)
    ELSE LET r == ScanEntry(Head(order), dir[Head(order)], ticker, price_col,
                            start_date, end_date)
         IN  IF r.exc = "" /\ r.status = "continue"
                 THEN Returned(None, "miss", None)
             ELSE r

\* _load_from_cache, the directory listed in the order cache_dir.iterdir()
\* gives (order, a sequence of the names of dir).  The directory exists: the
\* constructor made it.
RECURSIVE LoadFromCache(_, _, _, _, _, _)
LoadFromCache(dir, order, ticker, price_col, start_date, end_date) ==
    IF order = <<>> THEN Returned(None, "miss", None)
    ELSE LET r == ScanEntry(Head(order), dir[Head(order)], ticker, price_col,
                            start_date, end_date)
         IN  IF r.exc = "" /\ r.status = "continue"
                 THEN LoadFromCache(dir, Tail(order), ticker, price_col,
                                    start_date, end_date)
             ELSE r

\* The orders iterdir() may list a directory in
Orders(S) ==
    {o \in [1..Cardinality(S) -> S] : \A i, j \in 1..Cardinality(S) :
                                          i # j => o[i] # o[j]}

-----------------------------------------------------------------------------
(* The external source and fetch_single_ticker *)

\* The columns of the DataFrame yfinance's history() returns
YfColumns == {<<"Open">>, <<"Close">>}

\* The value the source quotes for day d
Quote(d) == 100 + d

RECURSIVE DayList(_, _)
DayList(a, b) == IF a > b THEN <<>> ELSE <<a>> \o DayList(a + 1, b)

\* What history(start, end) may answer: an empty DataFrame, or a DataFrame
\* with a row for each day asked
EmptyDf == [columns |-> YfColumns, index |-> <<>>]
Responses(start_date, end_date) ==
    { EmptyDf,
      [columns |-> YfColumns, index |-> DayList(start_date, end_date)] }

PriceSeries(values, name) == [values |-> values, name |-> name]

Fetch(ticker, start_date, end_date) ==
    [ticker |-> ticker, start |-> start_date, end |-> end_date]

Outcome(exc, ret, fetches) == [exc |-> exc, ret |-> ret, fetches |-> fetches]

\* fetch_single_ticker with the missing column answered like the empty
\* DataFrame, by None
FetchSingleTickerMissingAsNone(ticker, price_col, dates, resp) ==
    IF ~CanParse(dates[1]) \/ ~CanParse(dates[2])
        THEN Outcome("ValueError", None, <<>>)
    ELSE
    LET start_date == ToDatetime(dates[1])
        end_date == ToDatetime(dates[2])
        fetches == <<Fetch(ticker, start_date, end_date)>>
    IN  IF resp.index = <<>> \/ price_col \notin resp.columns
            THEN Outcome("", None, fetches)
        ELSE LET prices == [i \in 1..Len(resp.index) |->
                                Row(resp.index[i], Quote(resp.index[i]))]
             IN  Outcome("", Some(PriceSeries(prices, price_col)), fetches)

\* fetch_single_ticker, resp being what history() answers; ret is None or
\* Some(the PriceSeries), fetches the calls made of the external source
FetchSingleTicker(ticker, price_col, dates, resp) ==
    IF ~CanParse(dates[1]) \/ ~CanParse(dates[2])
        THEN Outcome("ValueError", None, <<>>)
    ELSE
    LET start_date == ToDatetime(dates[1])
        end_date == ToDatetime(dates[2])
        fetches == <<Fetch(ticker, start_date, end_date)>>
    IN  IF resp.index = <<>> THEN Outcome("", None, fetches)
        ELSE IF price_col \notin resp.columns
            THEN Outcome("KeyError", None, fetches)
        ELSE LET prices == [i \in 1..Len(resp.index) |->
                                Row(resp.index[i], Quote(resp.index[i]))]
             IN  IF prices = <<>> THEN Outcome("", None, fetches)
                 ELSE Outcome("", Some(PriceSeries(prices, price_col)), fetches)

-----------------------------------------------------------------------------
(* fetch_multiple_tickers *)

MaxBatch == 2     \* tickers of one fetch_multiple_tickers call at most

\* The dict d after d[key] = value
SetItem(d, key, value) ==
    [k \in (DOMAIN d) \cup {key} |-> IF k = key THEN value ELSE d[k]]

BatchOutcome(exc, results, calls) ==
    [exc |-> exc, results |-> results, calls |-> calls]

\* The loop of fetch_multiple_tickers from its i-th ticker on, resps[i] being
\* what history() answers for it; calls counts the fetch_single_ticker calls
RECURSIVE FetchLoop(_, _, _, _, _, _)
FetchLoop(tickers, price_col, dates, resps, i, results) ==
    IF i > Len(tickers) THEN BatchOutcome("", results, i - 1)
    ELSE LET ps == FetchSingleTicker(tickers[i], price_col, dates, resps[i])
         IN  IF ps.exc # "" THEN BatchOutcome(ps.exc, << >>, i)
             ELSE FetchLoop(tickers, price_col, dates, resps, i + 1,
                            IF ps.ret # None
                                THEN SetItem(results, tickers[i], ps.ret[1])
                            ELSE results)

FetchMultipleTickers(tickers, price_col, dates, resps) ==
    FetchLoop(tickers, price_col, dates, resps, 1, << >>)

-----------------------------------------------------------------------------
(* The cache directory DataLoader() finds: mkdir(exist_ok=True) keeps what  *)
(* is already there                                                          *)

\* The value of day d in a series persisted earlier
CachedValue(d) == 10 + d

SavedPrices(iv) == [i \in 1..(iv[2] - iv[1] + 1) |-> CachedValue(iv[1] + i - 1)]
SavedDates(iv) == DayList(iv[1], iv[2])

\* What _save_to_cache leaves in a file for the interval iv
SavedEntry(ticker, price_col, iv) ==
    SaveToCache(<< >>, "f", SavedPrices(iv), price_col, SavedDates(iv), ticker,
                DateStr(iv[1]), DateStr(iv[2]))["f"]

\* A pickled dict that has no 'prices' key
NoPrices == Pickled([ticker |-> <<"A">>])

FullInterval == <<1, MaxDay>>
FullDates == <<DateStr(1), DateStr(MaxDay)>>

\* A pickled dict as _save_to_cache writes it, but for n_prices, which is not
\* the number of its prices
Miscounted ==
    Pickled([SavedEntry(<<"A">>, <<"Close">>, FullInterval).data
                EXCEPT !.n_prices = @ + 1])

\* Files of the directory: entries of A/Close named as the docstring of
\* _get_cache_path says (sound ones of every interval, and of the whole
\* interval one cut short, one of zero bytes, one without prices, one with
\* a wrong n_prices), the
\* entry of A/Close an earlier _save_to_cache left at the path of
\* _get_cache_path,
\* an entry of another ticker, one of another column, a name cut short and
\* a name with an unreadable date
Preexisting ==
    { <<GetCachePathPkl(<<"A">>, <<"Close">>, <<DateStr(iv[1]), DateStr(iv[2])>>),
        SavedEntry(<<"A">>, <<"Close">>, iv)>> : iv \in Intervals }
    \cup
    { <<GetCachePathPkl(<<"A">>, <<"Close">>, FullDates), c>> :
        c \in {Truncated, EmptyFile, NoPrices, Miscounted} }
    \cup
    { <<GetCachePath(<<"A">>, <<"Close">>, FullDates),
        SavedEntry(<<"A">>, <<"Close">>, FullInterval)>> }
    \cup
    { <<GetCachePathPkl(<<"M">>, <<"Close">>, FullDates),
        SavedEntry(<<"M">>, <<"Close">>, FullInterval)>>,
      <<GetCachePathPkl(<<"A">>, <<"Px">>, FullDates),
        SavedEntry(<<"A">>, <<"Px">>, FullInterval)>>,
      <<<<"A", "_", "Close", ".", "pkl">>,
        SavedEntry(<<"A">>, <<"Close">>, FullInterval)>>,
      <<GetCachePathPkl(<<"A">>, <<"Close">>, <<<<"x">>, DateStr(MaxDay)>>),
        SavedEntry(<<"A">>, <<"Close">>, FullInterval)>> }

RECURSIVE Directories(_)
Directories(n) ==
    IF n = 0 THEN {<< >>}
    ELSE LET smaller == Directories(n - 1)
         IN  smaller \cup
             { WriteFile(dir, f[1], f[2]) :
                 dir \in smaller, f \in Preexisting }


-----------------------------------------------------------------------------
(* The cache store: _save_to_cache at the path of _get_cache_path, and       *)
(* _load_from_cache                                                          *)

InitStore ==
    /\ store \in Directories(MaxFiles)
    /\ last = NoCall
    /\ ovArgs = <<1, 1, 1, 1>>
    /\ ovRet = None
    /\ threads = NoThreads

\* loader._save_to_cache(loader._get_cache_path(ticker, price_col, dates), ...)
SaveToCacheCall ==
    \E ticker \in Tickers, price_col \in PriceCols, iv \in Intervals :
        LET dates == <<DateStr(iv[1]), DateStr(iv[2])>>
            cache_path == GetCachePath(ticker, price_col, dates)
        IN  /\ cache_path \in DOMAIN store \/ Cardinality(DOMAIN store) < MaxFiles
            /\ store' = SaveToCache(store, cache_path, SavedPrices(iv), price_col,
                                    SavedDates(iv), ticker, dates[1], dates[2])
            /\ last' = [op |-> "save", ticker |-> ticker, price_col |-> price_col,
                        start |-> iv[1], end |-> iv[2],
                        prices |-> SavedPrices(iv), dates |-> SavedDates(iv)]
            /\ UNCHANGED <<ovArgs, ovRet, threads>>

\* loader._load_from_cache(ticker, price_col, start_date, end_date); saved
\* is the call before it when that was the _save_to_cache of the same ticker,
\* column and interval
LoadFromCacheCall ==
    \E ticker \in Tickers, price_col \in PriceCols, iv \in Intervals,
       order \in Orders(DOMAIN store) :
        /\ last' = [op |-> "load", ticker |-> ticker, price_col |-> price_col,
                    start |-> iv[1], end |-> iv[2], order |-> order,
                    saved |-> IF /\ last.op = "save"
                                 /\ last.ticker = ticker
                                 /\ last.price_col = price_col
                                 /\ <<last.start, last.end>> = iv
                                  THEN Some(last) ELSE None,
                    out |-> LoadFromCache(store, order, ticker, price_col,
                                          iv[1], iv[2])]
        /\ UNCHANGED <<store, ovArgs, ovRet, threads>>

\* clear_cache as src/pyvest/src/dataloader.py has it: a docstring and three
\* comments, so that nothing is removed and None is returned.  (In
\* src/pyvest/src/pyvest/dataloader.py the method is commented out.)
ClearCache(dir) == [dir |-> dir, ret |-> None]

\* loader.clear_cache(); entries is the number of files before the call
ClearCacheCall ==
    /\ store' = ClearCache(store).dir
    /\ last' = [op |-> "clear", entries |-> Cardinality(DOMAIN store),
                ret |-> ClearCache(store).ret]
    /\ UNCHANGED <<ovArgs, ovRet, threads>>

NextStore == SaveToCacheCall \/ LoadFromCacheCall \/ ClearCacheCall

SpecStore == InitStore /\ [][NextStore]_vars

-----------------------------------------------------------------------------
(* One lookup: a DataLoader made on a directory and asked _load_from_cache   *)
(* once, the ticker written in upper or in lower case                        *)

RequestTickers == Tickers \cup {<<"a">>}

\* The lookup removing the files it finds corrupt (those the except clause
\* catches)
LookupCallDroppingCorrupt ==
    /\ last = NoCall
    /\ \E ticker \in RequestTickers, price_col \in PriceCols, iv \in Intervals,
          order \in Orders(DOMAIN store) :
           LET corrupt == {n \in DOMAIN store :
                              /\ Suffix(n) = <<".", "pkl">>
                              /\ TryEntry(n, store[n], ticker, price_col,
                                          iv[1], iv[2]).exc \in Caught}
           IN  /\ last' = [op |-> "load", ticker |-> ticker,
                           price_col |-> price_col,
                           start |-> iv[1], end |-> iv[2], order |-> order,
                           saved |-> None,
                           out |-> LoadFromCache(store, order, ticker,
                                                 price_col, iv[1], iv[2])]
               /\ store' = [n \in DOMAIN store \ corrupt |-> store[n]]
    /\ UNCHANGED <<ovArgs, ovRet, threads>>

\* loader._load_from_cache(ticker, price_col, start_date, end_date), the first
\* call made of the loader
LookupCall ==
    /\ last = NoCall
    /\ \E ticker \in RequestTickers, price_col \in PriceCols, iv \in Intervals,
          order \in Orders(DOMAIN store) :
           last' = [op |-> "load", ticker |-> ticker, price_col |-> price_col,
                    start |-> iv[1], end |-> iv[2], order |-> order,
                    saved |-> None,
                    out |-> LoadFromCache(store, order, ticker, price_col,
                                          iv[1], iv[2])]
    /\ UNCHANGED <<store, ovArgs, ovRet, threads>>

NextLookup == LookupCall

SpecLookup == InitStore /\ [][NextLookup]_vars

-----------------------------------------------------------------------------
(* One persist: a DataLoader made on a directory and asked _save_to_cache    *)
(* once, for an interval of which the source had rows for some days only     *)

\* loader._save_to_cache(loader._get_cache_path(ticker, price_col, dates), ...)
\* with the series of the days rows[1]..rows[2] of the interval iv, the first
\* call made of the loader
PersistCall ==
    /\ last = NoCall
    /\ \E ticker \in Tickers, price_col \in PriceCols, iv \in Intervals,
          rows \in Intervals :
           LET dates == <<DateStr(iv[1]), DateStr(iv[2])>>
               cache_path == GetCachePath(ticker, price_col, dates)
           IN  /\ iv[1] <= rows[1] /\ rows[2] <= iv[2]
               /\ \/ cache_path \in DOMAIN store
                  \/ Cardinality(DOMAIN store) < MaxFiles
               /\ store' = SaveToCache(store, cache_path, SavedPrices(rows),
                                       price_col, SavedDates(rows), ticker,
                                       dates[1], dates[2])
               /\ last' = [op |-> "save", ticker |-> ticker,
                           price_col |-> price_col,
                           start |-> iv[1], end |-> iv[2],
                           prices |-> SavedPrices(rows),
                           dates |-> SavedDates(rows)]
    /\ UNCHANGED <<ovArgs, ovRet, threads>>

NextPersist == PersistCall

SpecPersist == InitStore /\ [][NextPersist]_vars

-----------------------------------------------------------------------------
(* Fetching: fetch_single_ticker and fetch_multiple_tickers                  *)

InitFetch ==
    /\ store \in Directories(1)
    /\ last = NoCall
    /\ ovArgs = <<1, 1, 1, 1>>
    /\ ovRet = None
    /\ threads = NoThreads

\* loader.fetch_single_ticker(ticker, price_col, dates); before is the outcome
\* of the call before it when that was the same call of fetch_single_ticker,
\* answered alike by the source
FetchSingleTickerCall ==
    \E ticker \in Tickers, price_col \in PriceCols, iv \in Intervals :
        \E resp \in Responses(iv[1], iv[2]) :
            LET dates == <<DateStr(iv[1]), DateStr(iv[2])>>
            IN  /\ last' = [op |-> "fetch_single", ticker |-> ticker,
                            price_col |-> price_col, start |-> iv[1],
                            end |-> iv[2], resp |-> resp,
                            before |-> IF /\ last.op = "fetch_single"
                                          /\ last.ticker = ticker
                                          /\ last.price_col = price_col
                                          /\ <<last.start, last.end>> = iv
                                          /\ last.resp = resp
                                           THEN Some(last.out) ELSE None,
                            out |-> FetchSingleTicker(ticker, price_col, dates,
                                                      resp)]
                /\ UNCHANGED <<store, ovArgs, ovRet, threads>>

Batches == UNION {[1..n -> Tickers] : n \in 0..MaxBatch}

\* loader.fetch_multiple_tickers(tickers, price_col, dates)
FetchMultipleTickersCall ==
    \E tickers \in Batches, price_col \in PriceCols :
        \E resps \in [1..Len(tickers) -> Responses(FullInterval[1], FullInterval[2])] :
            /\ last' = [op |-> "fetch_multiple", tickers |-> tickers,
                        price_col |-> price_col, start |-> FullInterval[1],
                        end |-> FullInterval[2], resps |-> resps,
                        out |-> FetchMultipleTickers(tickers, price_col,
                                                     FullDates, resps)]
            /\ UNCHANGED <<store, ovArgs, ovRet, threads>>

NextFetch == FetchSingleTickerCall \/ FetchMultipleTickersCall

SpecFetch == InitFetch /\ [][NextFetch]_vars

-----------------------------------------------------------------------------
(* One call: a DataLoader made on a directory and asked one of              *)
(* _save_to_cache, _load_from_cache, fetch_single_ticker and clear_cache     *)

NextFirstCall ==
    \/ last = NoCall /\ SaveToCacheCall
    \/ last = NoCall /\ LoadFromCacheCall
    \/ last = NoCall /\ FetchSingleTickerCall
    \/ last = NoCall /\ ClearCacheCall

SpecFirstCall == InitStore /\ [][NextFirstCall]_vars

-----------------------------------------------------------------------------
(* Two threads calling fetch_single_ticker of one DataLoader: a call is two  *)
(* steps, up to the request made of the source, then from its answer to the  *)
(* return                                                                    *)

\* lines 222-225: the dates are converted and history() is called
ThreadCall(t) ==
    /\ threads[t].pc = "idle"
    /\ \E ticker \in Tickers, price_col \in PriceCols, iv \in Intervals :
           threads' = [threads EXCEPT ![t] =
                          [pc |-> "history", ticker |-> ticker,
                           price_col |-> price_col, start |-> iv[1],
                           end |-> iv[2]]]
    /\ UNCHANGED <<store, last, ovArgs, ovRet>>

\* lines 225-241: history() answers and the call returns or raises
ThreadReturn(t) ==
    /\ threads[t].pc = "history"
    /\ \E resp \in Responses(threads[t].start, threads[t].end) :
           threads' = [threads EXCEPT ![t] =
                          [pc |-> "done", ticker |-> threads[t].ticker,
                           price_col |-> threads[t].price_col,
                           start |-> threads[t].start, end |-> threads[t].end,
                           resp |-> resp,
                           out |-> FetchSingleTicker(
                                       threads[t].ticker, threads[t].price_col,
                                       <<DateStr(threads[t].start),
                                         DateStr(threads[t].end)>>, resp)]]
    /\ UNCHANGED <<store, last, ovArgs, ovRet>>

NextThreads == \E t \in 1..2 : ThreadCall(t) \/ ThreadReturn(t)

SpecThreads == InitFetch /\ [][NextThreads]_vars

-----------------------------------------------------------------------------
(* Claims about the cache store *)

IsLoad == last.op = "load"
IsFetch == last.op = "fetch_single"
IsBatch == last.op = "fetch_multiple"

RowDates(df) == {df[i].date : i \in 1..Len(df)}

\* What _load_from_cache answers the request of the last call, the directory
\* listed in the order o
Lookup(o) ==
    LoadFromCache(store, o, last.ticker, last.price_col, last.start, last.end)

\* The names the two _get_cache_path of the repository give the request of
\* the last call for the interval iv
RequestNames(iv) ==
    LET dates == <<DateStr(iv[1]), DateStr(iv[2])>>
    IN  { GetCachePath(last.ticker, last.price_col, dates),
          GetCachePathPkl(last.ticker, last.price_col, dates) }

\* The file name holds a pickled dict with prices and dates
HoldsSeries(name) ==
    /\ name \in DOMAIN store
    /\ store[name].kind = "pickle"
    /\ {"prices", "dates"} \subseteq DOMAIN store[name].data
    /\ store[name].data.dates # None
    /\ Len(store[name].data.dates[1]) = Len(store[name].data.prices)

StoredFrame(name) ==
    Frame(store[name].data.dates[1], store[name].data.prices)

\* What the loop of _load_from_cache makes of the file name, for the request
\* of the last call
ScanOf(name) ==
    ScanEntry(name, store[name], last.ticker, last.price_col, last.start,
              last.end)

\* The file name is the one entry of the directory the lookup of the request
\* of the last call finds: every other file is passed over
OnlyHit(name) ==
    /\ ScanOf(name).exc = "" /\ ScanOf(name).status # "continue"
    /\ \A m \in DOMAIN store \ {name} :
          ScanOf(m).exc = "" /\ ScanOf(m).status = "continue"

\* The interval the name of a cache entry declares
EntryInterval(name) ==
    <<ToDatetime(Split(Stem(name))[3]), ToDatetime(Split(Stem(name))[4])>>

(* C4: a series persisted by _save_to_cache at the path _get_cache_path      *)
(* gives, then looked up by _load_from_cache with the same ticker, column    *)
(* and interval, is found with status exact and with the persisted values.   *)
C4_RoundTrip ==
    (IsLoad /\ last.saved # None) =>
        /\ last.out.exc = ""
        /\ last.out.status = "exact"
        /\ last.out.df = Some(Frame(last.saved[1].dates, last.saved[1].prices))

(* C5: a series served from a cached entry that equals or contains the       *)
(* requested interval holds only points whose date lies in the requested     *)
(* interval.                                                                 *)
C5_Trimmed ==
    (IsLoad /\ last.out.exc = "" /\ last.out.status \in {"exact", "contains"}) =>
        RowDates(last.out.df[1]) \subseteq last.start..last.end

(* C10: no entry makes _load_from_cache raise: an entry with a malformed     *)
(* name, malformed dates or an unreadable payload is skipped, and when one   *)
(* entry of the directory is sound and matches while every other entry is    *)
(* skipped, the lookup returns the sound entry's result.                     *)
C10_CorruptSkipped ==
    IsLoad =>
        /\ last.out.exc = ""
        /\ \A n \in DOMAIN store :
              ( /\ ScanOf(n).exc = "" /\ ScanOf(n).status # "continue"
                /\ \A m \in DOMAIN store \ {n} :
                      ScanOf(m).exc # "" \/ ScanOf(m).status = "continue" )
              => last.out = ScanOf(n)

-----------------------------------------------------------------------------
(* Claims about fetching *)

Overlaps == {"overlap_after", "overlap_before"}

(* C3: fetch_single_ticker called twice with the same ticker, column and     *)
(* dates, the source answering alike, returns the same series twice and      *)
(* makes no external fetch the second time.                                  *)
C3_Idempotent ==
    (IsFetch /\ last.before # None /\ last.before[1].ret # None) =>
        /\ last.out.ret = last.before[1].ret
        /\ last.out.fetches = <<>>

(* C6: on a partial overlap fetch_single_ticker makes exactly one external   *)
(* fetch, of the gap, and persists the merged series under the union of the  *)
(* cached and the requested interval.                                        *)
C6_GapFetch ==
    IsFetch =>
        \A n \in DOMAIN store :
            (OnlyHit(n) /\ ScanOf(n).status \in Overlaps /\ last.out.ret # None)
            => LET cached == EntryInterval(n)
                   gap == ScanOf(n).gap[1]
                   union == <<Min(cached[1], last.start),
                              Max(cached[2], last.end)>>
               IN  /\ last.out.fetches = <<Fetch(last.ticker, gap[1], gap[2])>>
                   /\ \E name \in RequestNames(union) : HoldsSeries(name)

(* C7: the merge of the cached points with the newly fetched points has one  *)
(* point per date, in ascending order of date, and on a date both have, the  *)
(* newly fetched value.                                                      *)
C7_Merge ==
    IsFetch =>
        \A n \in DOMAIN store :
            (OnlyHit(n) /\ ScanOf(n).status \in Overlaps /\ last.out.ret # None)
            => LET cached == ScanOf(n).df[1]
                   fetched == last.out.ret[1].values
               IN  \E name \in DOMAIN store :
                       /\ HoldsSeries(name)
                       /\ LET merged == StoredFrame(name)
                          IN  /\ \A i, j \in 1..Len(merged) :
                                    i < j => merged[i].date < merged[j].date
                              /\ RowDates(merged)
                                    = RowDates(cached) \cup RowDates(fetched)
                              /\ \A i \in 1..Len(merged) :
                                    \/ \E k \in 1..Len(fetched) :
                                           merged[i] = fetched[k]
                                    \/ /\ merged[i].date \notin RowDates(fetched)
                                       /\ \E k \in 1..Len(cached) :
                                              merged[i] = cached[k]

(* C8: on a miss fetch_single_ticker makes one external fetch, of the whole  *)
(* requested interval; when the source has no data it returns None and       *)
(* persists nothing; otherwise it returns the series and persists an entry   *)
(* for exactly the requested interval.                                       *)
C8_Miss ==
    (IsFetch /\ last.out.exc = ""
        /\ \A o \in Orders(DOMAIN store) : Lookup(o).status = "miss") =>
        /\ last.out.fetches = <<Fetch(last.ticker, last.start, last.end)>>
        /\ last.resp.index = <<>> =>
              /\ last.out.ret = None
              /\ \A name \in RequestNames(<<last.start, last.end>>) :
                    ~HoldsSeries(name)
        /\ last.resp.index # <<>> =>
              /\ last.out.ret # None
              /\ \E name \in RequestNames(<<last.start, last.end>>) :
                    /\ HoldsSeries(name)
                    /\ StoredFrame(name) = last.out.ret[1].values

(* C9: in fetch_multiple_tickers an absence or a failure of one ticker does  *)
(* not end the processing of the others, and the returned dict has exactly   *)
(* the tickers whose fetch succeeded.                                        *)
C9_Isolated ==
    IsBatch =>
        /\ last.out.calls = Len(last.tickers)
        /\ DOMAIN last.out.results
              = { last.tickers[i] : i \in
                    { k \in 1..Len(last.tickers) :
                        FetchSingleTicker(last.tickers[k], last.price_col,
                                          <<DateStr(last.start),
                                            DateStr(last.end)>>,
                                          last.resps[k]).ret # None } }

-----------------------------------------------------------------------------
(* Claims about clear_cache and the keys of the cache *)

IsClear == last.op = "clear"

(* C12: after clear_cache the cache directory holds no entry, and the value  *)
(* returned is the number of entries the directory held before the call.     *)
C12_ClearCache ==
    IsClear =>
        /\ DOMAIN store = {}
        /\ last.ret = Some(last.entries)

\* str.upper()
Upper(t) ==
    [i \in DOMAIN t |-> CASE t[i] = "a" -> "A" [] t[i] = "m" -> "M"
                          [] OTHER -> t[i]]

\* What the loop of _load_from_cache makes of the file name when the request
\* of the last call is made with the ticker written as sym
ScanAs(name, sym) ==
    ScanEntry(name, store[name], sym, last.price_col, last.start, last.end)

HitAs(name, sym) ==
    ScanAs(name, sym).exc = "" /\ ScanAs(name, sym).status # "continue"

PassedAs(name, sym) ==
    ScanAs(name, sym).exc = "" /\ ScanAs(name, sym).status = "continue"

(* C13: a lookup whose ticker differs only in letter case from the ticker of *)
(* a stored entry that it would find with the ticker written as the entry    *)
(* has it, every other entry being passed over, finds that entry.            *)
C13_CaseNormalized ==
    IsLoad =>
        \A n \in DOMAIN store :
            LET sym == Split(Stem(n))[1]
            IN  ( /\ Upper(sym) = Upper(last.ticker)
                  /\ HitAs(n, sym)
                  /\ \A m \in DOMAIN store \ {n} :
                        PassedAs(m, sym) /\ PassedAs(m, last.ticker) )
                => last.out = ScanAs(n, sym)

-----------------------------------------------------------------------------
(* Claims about the scan of the directory *)

NameParts(name) == Split(Stem(name))

\* The file is named as an entry of the ticker and column of the last call
OfRequestKey(name) ==
    /\ Suffix(name) = <<".", "pkl">>
    /\ Len(NameParts(name)) >= 4
    /\ NameParts(name)[1] = last.ticker
    /\ NameParts(name)[2] = last.price_col

\* The classification of the interval the name declares against the interval
\* of the last call
Classified(name) ==
    CheckDateOverlap(EntryInterval(name)[1], EntryInterval(name)[2],
                     last.start, last.end)

NonMiss(name) ==
    /\ OfRequestKey(name)
    /\ CanParse(NameParts(name)[3]) /\ CanParse(NameParts(name)[4])
    /\ Classified(name).status # "miss"

\* The payload unpickles to a dict with prices and, when it has dates, as
\* many dates as prices
PayloadLoads(name) ==
    /\ store[name].kind = "pickle"
    /\ "prices" \in DOMAIN store[name].data
    /\ ("dates" \in DOMAIN store[name].data /\ store[name].data.dates # None)
          => Len(store[name].data.dates[1]) = Len(store[name].data.prices)

\* Unpickling the payload raises an exception the except clause does not name
PayloadAborts(name) == PickleLoad(store[name]).exc \notin Caught \cup {""}

EntryFrame(name) ==
    IF HoldsSeries(name) THEN StoredFrame(name)
    ELSE Frame(BDateRange(EntryInterval(name)[1],
                          Len(store[name].data.prices)),
               store[name].data.prices)

First(S) == CHOOSE i \in S : \A j \in S : i <= j

(* C14, as claimed: a lookup that returns gives the result of the first      *)
(* entry, in the order the directory is listed, whose name classifies as not *)
(* miss against the request, and miss only when no entry classifies so.      *)
C14_FirstNonMiss ==
    (IsLoad /\ last.out.exc = "") =>
        LET nonmiss == {i \in DOMAIN last.order : NonMiss(last.order[i])}
        IN  IF nonmiss = {} THEN last.out.status = "miss"
            ELSE LET n == last.order[First(nonmiss)]
                 IN  /\ last.out.status = Classified(n).status
                     /\ last.out.gap = Classified(n).gap
                     /\ last.out.df # None

(* C14, amended: the lookup gives the result of the first entry, in the      *)
(* order the directory is listed, whose name classifies as not miss and      *)
(* whose payload loads; files of another key, classified miss, ill-named or  *)
(* with a payload failing by an exception the except clause names are passed *)
(* over without ending the scan; miss is returned only when no entry is      *)
(* left; and an entry classified not miss whose payload raises another       *)
(* exception ends the scan by that exception.                                *)
C14_FirstUsable ==
    IsLoad =>
        LET decisive == {i \in DOMAIN last.order :
                            /\ NonMiss(last.order[i])
                            /\ \/ PayloadLoads(last.order[i])
                               \/ PayloadAborts(last.order[i])}
        IN  IF decisive = {} THEN last.out = Returned(None, "miss", None)
            ELSE LET n == last.order[First(decisive)]
                 IN  IF PayloadAborts(n)
                         THEN last.out = Raised(PickleLoad(store[n]).exc)
                     ELSE last.out = Returned(Some(EntryFrame(n)),
                                              Classified(n).status,
                                              Classified(n).gap)

\* Two entries of the key: the first listed classifies as not miss and does
\* not load, the second is returned
C14_Witness ==
    /\ IsLoad
    /\ Len(last.order) = 2
    /\ NonMiss(last.order[1]) /\ ~PayloadLoads(last.order[1])
    /\ NonMiss(last.order[2]) /\ PayloadLoads(last.order[2])
    /\ last.out.exc = ""
    /\ last.out.df = Some(EntryFrame(last.order[2]))

-----------------------------------------------------------------------------
(* Claims about concurrent requests *)

\* The names the two _get_cache_path of the repository give the request of
\* thread t
ThreadNames(t) ==
    LET dates == <<DateStr(threads[t].start), DateStr(threads[t].end)>>
    IN  { GetCachePath(threads[t].ticker, threads[t].price_col, dates),
          GetCachePathPkl(threads[t].ticker, threads[t].price_col, dates) }

BothReturnedSeries ==
    \A t \in 1..2 :
        /\ threads[t].pc = "done"
        /\ threads[t].out.exc = ""
        /\ threads[t].out.ret # None

(* C15: two concurrent requests of the same ticker and column each persist   *)
(* what they fetched, one write overwriting the other: when both have        *)
(* returned a series for the same interval, the entry of that interval holds *)
(* the series of one of them.                                                *)
C15_LostUpdate ==
    ( /\ BothReturnedSeries
      /\ threads[1].ticker = threads[2].ticker
      /\ threads[1].price_col = threads[2].price_col
      /\ <<threads[1].start, threads[1].end>>
            = <<threads[2].start, threads[2].end>> )
    => \E t \in 1..2 : \E name \in ThreadNames(t) :
           /\ HoldsSeries(name)
           /\ StoredFrame(name) = threads[t].out.ret[1].values

-----------------------------------------------------------------------------
(* Claims about persisted entries *)

IsSave == last.op = "save"

\* The path of the entry the last call, a _save_to_cache, wrote
SavedPath ==
    GetCachePath(last.ticker, last.price_col,
                 <<DateStr(last.start), DateStr(last.end)>>)

(* C16: the entry _save_to_cache has written holds dates in strictly         *)
(* ascending order, as many dates as prices, n_prices equal to the number of *)
(* prices, and as declared start and end the dates of its first and of its   *)
(* last point.                                                               *)
C16_EntryInvariant ==
    IsSave =>
        LET data == store[SavedPath].data
            dates == data.dates[1]
        IN  /\ \A i, j \in 1..Len(dates) : i < j => dates[i] < dates[j]
            /\ Len(dates) = Len(data.prices)
            /\ data.n_prices = Len(data.prices)
            /\ dates # <<>>
            /\ data.start = DateStr(dates[1])
            /\ data.end = DateStr(dates[Len(dates)])

\* The path of the entry the call this step ends, a _save_to_cache, writes
SavedPathNext ==
    GetCachePath(last'.ticker, last'.price_col,
                 <<DateStr(last'.start), DateStr(last'.end)>>)

(* C17: no call of _save_to_cache, _load_from_cache, fetch_single_ticker or  *)
(* clear_cache removes a file of the directory, and the only file a call     *)
(* adds or changes is the one _save_to_cache writes, at the path             *)
(* _get_cache_path derives from its ticker, column, start and end.           *)
C17_NeverShrinks ==
    [][ /\ DOMAIN store \subseteq DOMAIN store'
        /\ \A n \in DOMAIN store' :
              (n \notin DOMAIN store \/ store'[n] # store[n])
              => (last'.op = "save" /\ n = SavedPathNext) ]_vars

\* _save_to_cache has written an entry and an older entry of the same ticker
\* and column, of an interval inside the one written, is still there
C17_Witness ==
    /\ IsSave
    /\ HoldsSeries(SavedPath)
    /\ \E n \in DOMAIN store \ {SavedPath} :
          /\ OfRequestKey(n)
          /\ CanParse(NameParts(n)[3]) /\ CanParse(NameParts(n)[4])
          /\ last.start <= EntryInterval(n)[1]
          /\ EntryInterval(n)[2] <= last.end
          /\ HoldsSeries(n)

\* What _load_from_cache reads from the name of a file (lines 124-146): the
\* ticker, the column and the two dates, or None for a file it passes over
\* for its name
DecodeName(name) ==
    IF Suffix(name) # <<".", "pkl">> THEN None
    ELSE LET name_parts == Split(Stem(name))
         IN  IF Len(name_parts) < 4 THEN None
             ELSE IF ~CanParse(name_parts[3]) \/ ~CanParse(name_parts[4])
                 THEN None
             ELSE Some(<<name_parts[1], name_parts[2],
                         ToDatetime(name_parts[3]), ToDatetime(name_parts[4])>>)

(* C18: the name _get_cache_path derives from a ticker, a column, a start    *)
(* and an end, under which _save_to_cache has written, is read back by       *)
(* _load_from_cache as that ticker, column, start and end.                   *)
C18_IdentifierRoundTrip ==
    IsSave =>
        DecodeName(SavedPath)
            = Some(<<last.ticker, last.price_col, last.start, last.end>>)

\* The payload is not a dict whose n_prices differs from the number of its
\* prices
CountAgrees(name) ==
    ~ /\ store[name].kind = "pickle"
      /\ {"n_prices", "prices"} \subseteq DOMAIN store[name].data
      /\ store[name].data.n_prices # Len(store[name].data.prices)

(* C19: an entry whose n_prices is not the number of its prices is passed    *)
(* over by _load_from_cache: the lookup answers as it does of the directory  *)
(* without such entries.                                                     *)
C19_CountChecked ==
    IsLoad => last.out = Lookup(SelectSeq(last.order, CountAgrees))

(* C20: once fetch_single_ticker has returned a series, the directory holds  *)
(* an entry of the ticker and column whose interval contains the requested   *)
(* one, and the lookup of the same request is not a miss.                    *)
C20_FetchedIsCached ==
    (IsFetch /\ last.out.exc = "" /\ last.out.ret # None) =>
        /\ \E n \in DOMAIN store :
              /\ DecodeName(n) # None
              /\ DecodeName(n)[1][1] = last.ticker
              /\ DecodeName(n)[1][2] = last.price_col
              /\ DecodeName(n)[1][3] <= last.start
              /\ last.end <= DecodeName(n)[1][4]
        /\ \A o \in Orders(DOMAIN store) :
              Lookup(o).exc = "" /\ Lookup(o).status # "miss"

(* C22: a call of _load_from_cache leaves the directory as it was, the files *)
(* and their contents, also when it passes corrupt entries over or raises;   *)
(* and when it returns, it returns a DataFrame exactly when the status it    *)
(* returns is not miss.                                                      *)
C22_ReadOnly ==
    [][ last'.op = "load" =>
            /\ store' = store
            /\ last'.out.exc = "" =>
                  (last'.out.df # None <=> last'.out.status # "miss") ]_vars

\* A lookup has passed over an entry cut short, which is still in the
\* directory, and returned the series of another entry
C22_Witness ==
    /\ IsLoad
    /\ last.out.exc = ""
    /\ last.out.status # "miss" /\ last.out.df # None
    /\ \E n \in DOMAIN store :
          /\ NonMiss(n)
          /\ store[n] = Truncated
          /\ \E i, j \in DOMAIN last.order : i < j /\ last.order[i] = n

=============================================================================
